---- MODULE Spec2Model ----
(***************************************************************************)
(* Model of the sf-dune-utils sync daemons:                                *)
(*   - SuperTokenSync (supertoken_holders_sync.py): the holders daemon,    *)
(*     its cycle (sync_once) and its work unit (process_token);            *)
(*   - DuneSyncBase (dune_utils.py): the warehouse gateway;                *)
(*   - SupMetricsSync (sup_metrics_sync.py): the metrics daemon.           *)
(* Remote services (networks.json, subgraph, holders API, Dune) and the    *)
(* file system are the environment: their answers are drawn from small     *)
(* sets inside the action that makes the call.                             *)
(***************************************************************************)
EXTENDS Integers, Sequences, FiniteSets, TLC

\* ------------------------------------------------------------------ bounds
\* longest networks.json listing
MaxNetworks == 2
\* longest token list a subgraph returns
MaxTokens == 2
\* most tokens the subgraphs list in one cycle, over all its networks
MaxUnits == 3
\* most data rows of a preset CSV file
MaxPresetRows == 2
\* most cycles a metrics daemon run is followed for
MaxCycles == 2
\* most rows of a downloaded table
MaxTableRows == 2

\* ------------------------------------------------------- python primitives
\* Python's None; dict.get of an absent key yields it too
None == "<None>"

\* JSON true and false
JTrue == "<True>"
JFalse == "<False>"

\* bool(v) for the str / None / JSON-boolean values of the model
Truthy(v) == v \notin {None, "", JFalse}

\* dict.get(key, default) on a field already read as `v`
GetOr(v, default) == IF v = None THEN default ELSE v

\* str.strip() on the strings the model uses
strip(s) ==
    CASE s \in {"", " ", "  "} -> ""
      [] s = " ETHx "          -> "ETHx"
      [] OTHER                 -> s

\* ------------------------------------------------ holders sync: the inputs
\* network descriptors of networks.json: two testnet-like entries (isTestnet
\* true, isTestnet absent) and four mainnet ones (two with a duneName, one
\* without the key, one with an empty one)
Networks ==
    { [chainId |-> 11155111, isTestnet |-> JTrue,   duneName |-> "sepolia"],
      [chainId |-> 31337,    isTestnet |-> None,    duneName |-> "devnet"],
      [chainId |-> 8453,     isTestnet |-> JFalse, duneName |-> "base"],
      [chainId |-> 10,       isTestnet |-> JFalse, duneName |-> "optimism"],
      [chainId |-> 43114,    isTestnet |-> JFalse, duneName |-> None],
      [chainId |-> 42220,    isTestnet |-> JFalse, duneName |-> ""] }

\* the decoded bodies networks.json can have
Listings == UNION { [1..n -> Networks] : n \in 0..MaxNetworks }

\* what requests.get(...).json() does in get_networks: a decoded listing, or
\* an exception (connection error, undecodable body, interrupt in the call)
NetworksExceptions == {"ConnectionError", "JSONDecodeError", "KeyboardInterrupt"}
NetworksAnswers ==
    [exc : {"none"}, body : Listings] \cup [exc : NetworksExceptions, body : {<<>>}]

\* tokens a subgraph lists: id and symbol present, empty, blank or absent
Tokens ==
    { [id |-> None,  symbol |-> "ETHx"],
      [id |-> "",    symbol |-> "ETHx"],
      [id |-> "0xT", symbol |-> None],
      [id |-> "0xT", symbol |-> ""],
      [id |-> "0xT", symbol |-> " "],
      [id |-> "0xT", symbol |-> "ETHx"] }

\* every combination of address and symbol a token can carry
TokenIds == {None, "", "0xT"}
TokenSymbols == {None, "", " ", "  ", "ETHx", " ETHx "}
AllTokens == [id : TokenIds, symbol : TokenSymbols]

\* answers of the subgraph to get_tokens: the length of data.tokens, or a failure
SubgraphFailures == {"http_error", "graphql_errors", "RequestException", "Exception"}
SubgraphAnswers ==
    [fail : {"none"}, count : 0..MaxTokens] \cup [fail : SubgraphFailures, count : {0}]

\* answers of the holders API: a request exception (timeout, connection), or
\* a status with a body: {"holders": [...]}, {"holders": []}, {}, {"error": ..},
\* a JSON array, or text that is no JSON
HolderBodies == {"holders", "empty_holders", "no_holders_key", "error", "array", "not_json"}
HolderAnswers ==
    [exc : {"RequestException"}, status : {0}, body : {"not_json"}]
    \cup [exc : {"none"}, status : {404, 500}, body : {"error", "holders"}]
    \cup [exc : {"none"}, status : {200}, body : HolderBodies]

\* answers of the file system and of Dune within one unit
UnitEnvs == [csvOK : BOOLEAN, uploadOK : BOOLEAN, archiveOK : BOOLEAN]

\* the requests calls that pass timeout=30: get_tokens, get_holders and
\* fetch_metrics; get_networks and clear_table_data pass no timeout
TimedCalls == {"get_tokens", "get_holders", "fetch_metrics"}

\* requests without a timeout waits for as long as the endpoint is silent;
\* with one it raises Timeout, a RequestException
HasTimeout(site) == site \in TimedCalls

\* --------------------------------------------------- holders sync: the code
\* get_networks: the mainnet networks of the listing, [] on any exception
\* (the bare except also swallows an interrupt raised inside the call)
get_networks(answer) ==
    IF answer.exc = "none"
    THEN LET mainnet(net) == ~Truthy(GetOr(net.isTestnet, JTrue))
         IN  SelectSeq(answer.body, mainnet)
    ELSE <<>>

\* mutant: networks[:2]
DebugSliceTwo(nets, dbg) ==
    IF dbg THEN SubSeq(nets, 1, IF Len(nets) < 2 THEN Len(nets) ELSE 2) ELSE nets

\* sync_once, debug mode: networks[:1]
DebugSlice(nets, dbg) == IF dbg THEN SubSeq(nets, 1, IF Len(nets) < 1 THEN Len(nets) ELSE 1) ELSE nets

\* mutant: only an absent duneName is skipped, an empty one is processed
NoDuneSupportAbsentOnly(network) == network.duneName = None

\* sync_once: "if not network.get('duneName'): continue"
NoDuneSupport(network) == ~Truthy(network.duneName)

\* get_tokens: len of the token list, 0 ([]) on any failure
get_tokens(answer) == IF answer.fail = "none" THEN answer.count ELSE 0

\* mutant: the status code is not looked at
get_holders_any_status(a) ==
    IF a.exc # "none" THEN None
    ELSE IF a.body = "not_json" THEN None
    ELSE IF a.body = "error" THEN None
    ELSE a.body

\* get_holders: the decoded body, or None
get_holders(a) ==
    IF a.exc # "none" THEN None
    ELSE IF a.status = 404 THEN None
    ELSE IF a.status # 200 THEN None
    ELSE IF a.body = "not_json" THEN None
    ELSE IF a.body = "error" THEN None
    ELSE a.body

\* holders_data.get("holders"): AttributeError on a body that is no object
HoldersOf(body) ==
    CASE body = "array"   -> "AttributeError"
      [] body = "holders" -> "rows"
      [] OTHER            -> None

NoEffects ==
    [outcome |-> "none", fetched |-> FALSE, csvWritten |-> FALSE,
     uploadCalled |-> FALSE, uploaded |-> FALSE, archived |-> FALSE,
     raised |-> FALSE, logged |-> FALSE]

\* process_token: "if not token.get('id')"
MissingAddress(token) == ~Truthy(token.id)

\* mutant: the symbol is not stripped before it is tested
MissingSymbolNoStrip(token) == ~Truthy(token.symbol)

\* process_token: "if not token_symbol or token_symbol.strip() == ''"
MissingSymbol(token) == ~Truthy(token.symbol) \/ strip(token.symbol) = ""

\* process_token: a unit skipped by validation (warning, return)
SkipToken(why) == [NoEffects EXCEPT !.outcome = why, !.logged = TRUE]

\* mutant: a failed fetch is raised instead of logged
FetchFailedRaises(eff) == [eff EXCEPT !.outcome = "raised", !.raised = TRUE]

\* process_token: "if holders_data is None: ... return"
FetchFailed(eff) == [eff EXCEPT !.outcome = "fetch_failed"]

\* process_token: the CSV could not be written (except Exception: ... return)
CsvFailed(eff) == [eff EXCEPT !.outcome = "csv_failed"]

\* process_token: "if self.dune:" is false, nothing after the CSV
NoClient(eff) == [eff EXCEPT !.outcome = "no_client", !.csvWritten = TRUE]

\* mutant: the file is archived although upload_csv raised
UploadFailedArchives(eff) ==
    [eff EXCEPT !.outcome = "upload_failed", !.csvWritten = TRUE, !.uploadCalled = TRUE,
                !.archived = TRUE]

\* process_token: upload_csv raised (except Exception: "Upload failed")
UploadFailed(eff) ==
    [eff EXCEPT !.outcome = "upload_failed", !.csvWritten = TRUE, !.uploadCalled = TRUE]

\* process_token: upload_csv returned, then the archive move (its failure is logged)
Uploaded(eff, archiveOK) ==
    [eff EXCEPT !.outcome = "published", !.csvWritten = TRUE, !.uploadCalled = TRUE,
                !.uploaded = TRUE, !.archived = archiveOK]

\* process_token: what one call does, given the answers it receives
process_token(token, answer, env, dune) ==
    IF MissingAddress(token) THEN SkipToken("skip_address")
    ELSE IF MissingSymbol(token) THEN SkipToken("skip_symbol")
    ELSE LET holders_data == get_holders(answer)
             eff == [NoEffects EXCEPT !.fetched = TRUE, !.logged = TRUE]
         IN  IF holders_data = None THEN FetchFailed(eff)
             ELSE IF HoldersOf(holders_data) = "AttributeError"
             THEN [eff EXCEPT !.outcome = "raised", !.raised = TRUE]
             ELSE IF ~Truthy(HoldersOf(holders_data))
             THEN [eff EXCEPT !.outcome = "no_holders"]
             ELSE IF ~env.csvOK THEN CsvFailed(eff)
             ELSE IF ~dune THEN NoClient(eff)
             ELSE IF ~env.uploadOK THEN UploadFailed(eff)
             ELSE Uploaded(eff, env.archiveOK)

\* ------------------------------- holders sync: tables and archived files
\* str.lower() on the symbols the model uses
lower(s) ==
    CASE s \in {"ETHx", "ETHX"} -> "ethx"
      [] s = "DAIx"             -> "daix"
      [] OTHER                  -> s

\* process_token: f"{dune_name}_{token_symbol.lower()}_holders", also the stem
\* of the CSV file's name
table_name(dune_name, token_symbol) == <<dune_name, lower(token_symbol), "holders">>

\* process_token: Path(f"data/archive/{csv_path.name}_{self.timestamp}")
archive_path(name, stamp) == [name |-> name, stamp |-> stamp]

\* listed tokens of one network: two whose symbols differ in case only, and a third
StoreTokens ==
    { [id |-> "0xT", symbol |-> "ETHx"],
      [id |-> "0xU", symbol |-> "ETHX"],
      [id |-> "0xV", symbol |-> "DAIx"] }

\* a work unit of a cycle: a token of the network "base" and the answer the
\* holders API gives for it (holders, or a request exception)
StoreUnits ==
    [net : {"base"}, token : StoreTokens,
     answer : { [exc |-> "none", status |-> 200, body |-> "holders"],
                [exc |-> "RequestException", status |-> 0, body |-> "not_json"] }]

\* the token lists a cycle can meet
StoreBatches == UNION { [1..n -> StoreUnits] : n \in 0..MaxTokens }

TableNames == { table_name(u.net, u.token.symbol) : u \in StoreUnits }
ArchivePaths == { archive_path(n, t) : n \in TableNames, t \in 0..MaxCycles }

\* no table / no file
NoData == [token |-> None, at |-> 0]
NoFile == [token |-> None, cycle |-> 0]

\* dune.upload_csv: the table is replaced by the uploaded data
upload_csv(tbls, name, data) == [tbls EXCEPT ![name] = data]

\* shutil.move(csv_path, archive_path): a file already at the path is replaced
move(store, path, file) ==
    [store EXCEPT
        !.archive = [@ EXCEPT ![path] = file],
        !.replaced = IF store.archive[path] = NoFile THEN @
                     ELSE @ \cup {[path |-> path, was |-> store.archive[path].cycle,
                                   by |-> file.cycle]}]

\* process_token on the tables and the archive: the upload, then the move
ApplyUnit(store, u, dune, stamp, now) ==
    LET eff == process_token(u.token, u.answer,
                             [csvOK |-> TRUE, uploadOK |-> TRUE, archiveOK |-> TRUE], dune)
        name == table_name(u.net, u.token.symbol)
        up == IF eff.uploaded
              THEN [store EXCEPT !.tables = upload_csv(@, name, [token |-> u.token.id, at |-> now])]
              ELSE store
    IN  IF eff.archived
        THEN move(up, archive_path(name, stamp), [token |-> u.token.id, cycle |-> now])
        ELSE up

\* sync_once, the for loop over the tokens: process_token for each, in order
RECURSIVE RunUnits(_, _, _, _, _)
RunUnits(store, units, dune, stamp, now) ==
    IF units = <<>> THEN store
    ELSE RunUnits(ApplyUnit(store, Head(units), dune, stamp, now), Tail(units),
                  dune, stamp, now)

\* ------------------------------------------------- warehouse gateway code
\* what dune.upload_csv can do in upload_csv_to_dune: return, or raise
UploadAnswers == {"ok", "raise"}

\* DuneSyncBase.upload_csv_to_dune: False without a client, False on an
\* exception of upload_csv, True otherwise
upload_csv_to_dune(dune, answer) ==
    IF ~dune THEN FALSE
    ELSE answer = "ok"

\* DuneSyncBase.upload_csv_to_dune reaches self.dune.upload_csv
UploadRemoteCall(dune) == dune

\* what dune.create_table can answer: a result with already_existed False or
\* True, a result without that attribute, a falsy result, or an exception
CreateAnswers(exists) ==
    IF exists THEN {"existed", "no_attr", "raise"}
    ELSE {"created", "no_attr", "falsy", "raise"}

\* mutant: getattr(result, 'already_existed', False)
AlreadyExistedDefaultFalse(answer) == answer = "existed"

\* getattr(result, 'already_existed', True)
AlreadyExisted(answer) == answer # "created"

\* DuneSyncBase.create_table: the result ("Created") or None
create_table(dune, answer) ==
    IF ~dune THEN None
    ELSE IF answer = "raise" THEN None
    ELSE IF answer # "falsy" /\ ~AlreadyExisted(answer) THEN "Created"
    ELSE None

\* DuneSyncBase.create_table reaches self.dune.create_table
CreateRemoteCall(dune) == dune

\* the remote table exists after the create call
ExistsAfterCreate(exists, dune, answer) ==
    exists \/ (dune /\ answer \in {"created", "no_attr"})

\* what the clear endpoint can answer
ClearAnswers == {200, 404, 500, -1}

\* DuneSyncBase.clear_table_data: -1 stands for requests.post raising
clear_table_data(key, answer) ==
    IF ~key THEN FALSE
    ELSE IF answer = -1 THEN FALSE
    ELSE answer = 200

\* what happens inside insert_data_to_dune: insert_table returns and the
\* temporary file is removed ("ok"); insert_table returns and os.unlink of
\* the temporary file raises in the finally clause ("ok_unlink_raises");
\* writing the file or insert_table raises ("raise")
InsertAnswers == {"ok", "ok_unlink_raises", "raise"}

\* mutant: insert_data_to_dune without the "if not self.dune" guard
insert_data_to_dune_unguarded(dune, data, answer) == answer = "ok"

\* DuneSyncBase.insert_data_to_dune: True when nothing raised; an exception,
\* the one of the finally clause included, is logged and gives False
insert_data_to_dune(dune, data, answer) ==
    IF ~dune THEN FALSE
    ELSE answer = "ok"

\* the rows have reached the table: self.dune.insert_table returned
InsertApplied(dune, answer) == dune /\ answer \in {"ok", "ok_unlink_raises"}

\* DuneSyncBase.insert_data_to_dune reaches self.dune.insert_table
InsertRemoteCall(dune) == dune

\* ---------------------------------------------------- metrics sync: values
\* a JSON / Python scalar: null, an integer, or a string
JNull == [t |-> "null", n |-> 0, s |-> ""]
JInt(k) == [t |-> "int", n |-> k, s |-> ""]
JStr(x) == [t |-> "str", n |-> 0, s |-> x]

\* SupMetricsSync.get_table_schema: the field names
SchemaNames ==
    {"timestamp", "lockers", "staked", "lp", "fontaines", "community_charge",
     "investors_team_locked", "dao_treasury", "foundation_treasury", "other",
     "total_supply"}

\* get_table_schema: the fields declared "nullable": False
NonNullable == {"timestamp"}

\* the preset CSV: its header and its data rows; a row's cells are all of one
\* kind: a number, an empty cell, a blank cell, or text that is no number
CellKinds == {"100", "", " ", "abc"}
Headers ==
    { SchemaNames, SchemaNames \ {"lockers"}, SchemaNames \cup {"extra"},
      SchemaNames \ {"timestamp"} }
CsvRow(header, cell) ==
    [c \in header |-> IF c = "timestamp" THEN "2025-01-01T00:00:00" ELSE cell]
RowSeqs(header) ==
    UNION { [1..n -> {CsvRow(header, cell) : cell \in CellKinds}] : n \in 0..MaxPresetRows }
Presets ==
    { [exists |-> FALSE, header |-> {}, rows |-> <<>>],
      [exists |-> TRUE,  header |-> {}, rows |-> <<>>] }
    \cup UNION { [exists : {TRUE}, header : {h}, rows : RowSeqs(h)] : h \in Headers }

\* int(value) is defined on the cell
IsIntLiteral(cell) == cell \in {"100", "0", " 7 "}

\* int(value)
ParseInt(cell) ==
    CASE cell = "100" -> 100
      [] cell = " 7 " -> 7
      [] OTHER        -> 0

\* ------------------------------------------------------ metrics sync: code
\* SupMetricsSync.validate_csv_structure (no caller in the source)
validate_csv_structure(preset, expected) == preset.exists /\ preset.header = expected

\* load_preset_csv_data: one row of the DictReader, converted; ok is FALSE
\* when int() raises
ConvertRow(row) ==
    [ok  |-> \A c \in DOMAIN row :
                c = "timestamp" \/ ~(Truthy(row[c]) /\ Truthy(strip(row[c])))
                \/ IsIntLiteral(row[c]),
     row |-> [c \in DOMAIN row |->
                IF c = "timestamp" THEN JStr(row[c])
                ELSE IF Truthy(row[c]) /\ Truthy(strip(row[c])) THEN JInt(ParseInt(row[c]))
                ELSE JNull]]

\* load_preset_csv_data: the converted rows, or None (ok is FALSE) on an exception
load_preset_csv_data(preset) ==
    LET conv == [i \in 1..Len(preset.rows) |-> ConvertRow(preset.rows[i])]
    IN  IF \A i \in 1..Len(conv) : conv[i].ok
        THEN [ok |-> TRUE, rows |-> [i \in 1..Len(conv) |-> conv[i].row]]
        ELSE [ok |-> FALSE, rows |-> <<>>]

\* what one metrics cycle did: the methods it called in order, the rows it
\* passed to insert_data_to_dune, the rows the table gained, whether the table
\* was cleared, what sync_once returned, whether an exception left it
Did(calls, inserted, stored, cleared, result, raised) ==
    [calls |-> calls, inserted |-> inserted, stored |-> stored, cleared |-> cleared,
     result |-> result, raised |-> raised]

\* mutant: "if preset_data is None" in place of "if not preset_data"
load_preset_data_none_only(dune, preset, insertAns, before) ==
    IF ~preset.exists
    THEN Did(before, <<>>, <<>>, TRUE, TRUE, FALSE)
    ELSE LET preset_data == load_preset_csv_data(preset)
             calls == Append(before, "load_preset_csv_data")
         IN  IF ~preset_data.ok
             THEN Did(calls, <<>>, <<>>, TRUE, FALSE, FALSE)
             ELSE LET ok == insert_data_to_dune(dune, preset_data.rows, insertAns)
                  IN  Did(Append(calls, "insert_data_to_dune"), preset_data.rows,
                          IF InsertApplied(dune, insertAns) THEN preset_data.rows ELSE <<>>,
                          TRUE, ok, FALSE)

\* _load_preset_data
load_preset_data(dune, preset, insertAns, before) ==
    IF ~preset.exists
    THEN Did(before, <<>>, <<>>, TRUE, TRUE, FALSE)
    ELSE LET preset_data == load_preset_csv_data(preset)
             calls == Append(before, "load_preset_csv_data")
         IN  IF ~preset_data.ok \/ preset_data.rows = <<>>
             THEN Did(calls, <<>>, <<>>, TRUE, FALSE, FALSE)
             ELSE LET ok == insert_data_to_dune(dune, preset_data.rows, insertAns)
                  IN  Did(Append(calls, "insert_data_to_dune"), preset_data.rows,
                          IF InsertApplied(dune, insertAns) THEN preset_data.rows ELSE <<>>,
                          TRUE, ok, FALSE)

\* mutant: the result of clear_table_data is not looked at
AfterCreateIgnoringClear(dune, key, preset, clearAns, insertAns) ==
    load_preset_data(dune, preset, insertAns, <<"create_table", "clear_table_data">>)

\* _initialize_table, after its create_table call: clear, then the preset
AfterCreate(dune, key, preset, clearAns, insertAns) ==
    LET calls == <<"create_table", "clear_table_data">>
    IN  IF ~clear_table_data(key, clearAns)
        THEN Did(calls, <<>>, <<>>, FALSE, FALSE, FALSE)
        ELSE load_preset_data(dune, preset, insertAns, calls)

\* _initialize_table: the result of create_table is not looked at
initialize_table(dune, key, preset, createAns, clearAns, insertAns) ==
    AfterCreate(dune, key, preset, clearAns, insertAns)

\* answers of the metrics API: an exception, a status other than 200, or a body:
\* {"metrics": {..all..}}, {"metrics": {..some..}}, {"metrics": {}}, an object
\* without "metrics", {}, {"metrics": null}, a JSON array, text that is no JSON
MetricsBodies ==
    {"full", "partial", "empty_metrics", "no_metrics_key", "empty_object",
     "null_metrics", "array", "not_json"}
MetricsAnswers ==
    [exc : {"RequestException"}, status : {0}, body : {"not_json"}]
    \cup [exc : {"none"}, status : {500}, body : {"full", "not_json"}]
    \cup [exc : {"none"}, status : {200}, body : MetricsBodies]

\* fetch_metrics: the decoded body, or None
fetch_metrics(a) ==
    IF a.exc # "none" THEN None
    ELSE IF a.status # 200 THEN None
    ELSE IF a.body = "not_json" THEN None
    ELSE a.body

\* the upstream field each schema field is read from (_insert_current_data)
SourceField(c) ==
    CASE c = "lockers"               -> "reserveBalances"
      [] c = "staked"                -> "stakedSup"
      [] c = "lp"                    -> "lpSup"
      [] c = "fontaines"             -> "streamingOut"
      [] c = "community_charge"      -> "communityCharge"
      [] c = "investors_team_locked" -> "investorsTeamLocked"
      [] c = "dao_treasury"          -> "daoTreasury"
      [] c = "foundation_treasury"   -> "foundationTreasury"
      [] c = "other"                 -> "other"
      [] c = "total_supply"          -> "totalSupply"
      [] OTHER                       -> None

\* the keys of data["metrics"] for each body
MetricsKeys(body) ==
    CASE body = "full"    -> {SourceField(c) : c \in SchemaNames \ {"timestamp"}}
      [] body = "partial" -> {"reserveBalances", "stakedSup"}
      [] OTHER            -> {}

\* metrics.get(key)
MetricsGet(body, key) == IF key \in MetricsKeys(body) THEN JInt(100) ELSE JNull

\* _insert_current_data: new_row
NewRow(body) ==
    [c \in SchemaNames |->
        IF c = "timestamp" THEN JStr("2026-01-01T00:00:00") ELSE MetricsGet(body, SourceField(c))]

\* _insert_current_data
insert_current_data(dune, body, insertAns, before) ==
    LET ok == insert_data_to_dune(dune, <<NewRow(body)>>, insertAns)
    IN  Did(Append(before, "insert_data_to_dune"), <<NewRow(body)>>,
            IF InsertApplied(dune, insertAns) THEN <<NewRow(body)>> ELSE <<>>,
            FALSE, ok, FALSE)

\* _add_latest_entry
add_latest_entry(dune, metricsAns, insertAns) ==
    LET data == fetch_metrics(metricsAns)
        calls == <<"fetch_metrics">>
    IN  IF data \in {None, "empty_object"}
        THEN Did(calls, <<>>, <<>>, FALSE, FALSE, FALSE)
        ELSE IF data \in {"array", "null_metrics"}
        THEN Did(calls, <<>>, <<>>, FALSE, FALSE, TRUE)
        ELSE insert_current_data(dune, data, insertAns, calls)

\* mutant: the flag is compared with "true"
InitRequestedTrueOnly(flag) == flag = "true"

\* ------------------------------------------------- download script: code
\* what sync.download_table_data(table_name) hands to main: None when the
\* download failed (ok is FALSE), else the list of the table's rows, which
\* is empty for an empty table. DuneSyncBase in dune_utils.py defines no such
\* method; main's use of the value (not data, len(data), data[0].keys())
\* fixes its shape.
DownloadRows == {NewRow("full"), NewRow("partial")}
DownloadAnswers ==
    {[ok |-> FALSE, rows |-> <<>>]}
    \cup [ok : {TRUE}, rows : UNION {[1..n -> DownloadRows] : n \in 0..MaxTableRows}]

\* bool(data) for None or a list
ListTruthy(data) == data.ok /\ data.rows # <<>>

NoDownload ==
    [data |-> [ok |-> FALSE, rows |-> <<>>], ret |-> FALSE,
     file |-> [written |-> FALSE, rows |-> <<>>], log |-> "none"]

\* main of sup_metrics_download.py: what it returns, the file <table_name>.csv
\* it leaves and what it logs, given the downloaded data and whether the
\* file can be written
download_main(data, writeOK) ==
    IF ~ListTruthy(data)
    THEN [NoDownload EXCEPT !.data = data, !.ret = FALSE,
                            !.log = "ERROR Failed to download data"]
    ELSE IF Len(data.rows) = 0
    THEN [NoDownload EXCEPT !.data = data, !.ret = TRUE,
                            !.log = "WARNING Table is empty, no data to save"]
    ELSE IF ~writeOK
    THEN [NoDownload EXCEPT !.data = data, !.ret = FALSE,
                            !.log = "ERROR Failed to write CSV file"]
    ELSE [NoDownload EXCEPT !.data = data, !.ret = TRUE,
                            !.file = [written |-> TRUE, rows |-> data.rows],
                            !.log = "Successfully saved"]

\* process_metrics: "if init_table:" on os.getenv("SUP_METRICS_INIT")
InitRequested(flag) == Truthy(flag)

\* ------------------------------------------------------------------ state
VARIABLES
    \* SuperTokenSync.run
    hpc,         \* where run is: "run" (top of the while loop), "blocked" (in
                 \* get_networks, waiting for a response), "networks" and
                 \* "tokens" (the for loops of sync_once), "delay" (the 0.5 s
                 \* sleep), "sleep" (the interval sleep), "stopped" (returned)
    stopCause,   \* why run returned: "none", "interrupt", "exception"
    debug,       \* os.getenv("DEBUG") is set
    hasDune,     \* self.dune is a client (not None)
    fetchExc,    \* the exception get_networks met this cycle, or "none"
    eligible,    \* chain ids of the listing's mainnet networks with a duneName
    networks,    \* sync_once's list `networks`
    ni,          \* index of the for loop over networks
    ntokens,     \* len(tokens) of the network being processed
    ti,          \* index of the for loop over tokens
    processed,   \* chain ids whose tokens this cycle has queried (get_tokens)
    unit,        \* effects of the process_token call that has just returned
    unitIn,      \* what that call was given: token well-formed, injected fault
    nUnits,      \* tokens this cycle has enumerated
    nCalls,      \* process_token calls of this cycle
    nTransport,  \* calls of this cycle whose holders fetch failed in transport
    nPublished,  \* calls of this cycle whose upload succeeded
    others,      \* some call of this cycle neither failed transport nor was publishable
    cycleLog,    \* cycle-level log lines of this cycle
    ret,         \* what the latest sync_once returned
    \* one process_token call on its own
    call,
    \* SupMetricsSync.run and the warehouse
    mpc,         \* where run is: "run", "sleep", "stopped"
    mstop,       \* why run returned: "none", "interrupt", "exception"
    initFlag,    \* os.getenv("SUP_METRICS_INIT")
    apiKey,      \* os.getenv("DUNE_API_KEY") is set
    tableExists, \* the target table exists in the warehouse
    tableRows,   \* number of rows of the target table
    createLog,   \* what each create_table call of the run returned
    did,         \* what the latest metrics cycle did
    asked,       \* what that cycle was given: mode, preset header, answers
    mcycles,     \* cycles started
    nSucceeded,  \* append-mode cycles whose sync_once returned True
    nAppended,   \* rows the append-mode cycles have added to the table
    \* SuperTokenSync against the warehouse and data/archive, whole cycles
    clock,       \* datetime.now(), in ticks of the strftime resolution
    timestamp,   \* self.timestamp
    tables,      \* the holders tables of Dune: table name -> uploaded data
    reordered,   \* the tables, had the latest cycle met its tokens in another order
    archive,     \* the files of data/archive: path -> file
    replaced     \* the archive files a later move has replaced

hvars == <<hpc, stopCause, debug, hasDune, fetchExc, eligible, networks, ni, ntokens, ti,
           processed, unit, unitIn, nUnits, nCalls, nTransport, nPublished,
           others, cycleLog, ret>>
uvars == <<call>>
mvars == <<mpc, mstop, initFlag, apiKey, tableExists, tableRows, createLog, did,
           asked, mcycles, nSucceeded, nAppended>>
svars == <<clock, timestamp, tables, reordered, archive, replaced>>
vars == <<hvars, uvars, mvars, svars>>

\* -------------------------------------------- what a unit is given (inputs)
\* the token has an address and a symbol that is not blank
WellFormed(token) == token.id \notin {None, ""} /\ token.symbol \notin {None, "", " "}

\* the fault the environment injects into a unit, in the order the unit meets them
Fault(answer, env) ==
    CASE answer.exc # "none"      -> "request_exception"
      [] answer.status # 200      -> "http_status"
      [] answer.body = "error"    -> "api_error"
      [] answer.body = "not_json" -> "not_json"
      [] answer.body = "array"    -> "not_object"
      [] answer.body # "holders"  -> "no_holders"
      [] ~env.csvOK               -> "csv_write"
      [] ~env.uploadOK            -> "upload"
      [] OTHER                    -> "none"

TransportFaults == {"request_exception", "http_status", "api_error", "not_json"}

NoUnitIn == [valid |-> FALSE, fault |-> "none"]

\* ------------------------------------------------- a single call (no daemon)
\* what the three gateway methods returned and whether any reached Dune
NoGateway == [upload |-> FALSE, insert |-> FALSE, create |-> None, remote |-> FALSE]

NoCall ==
    [fn |-> "none", dryRun |-> FALSE, dune |-> FALSE,
     token |-> [id |-> None, symbol |-> None], fault |-> "none",
     eff |-> NoEffects, row |-> <<>>, gw |-> NoGateway, dl |-> NoDownload, writeOK |-> TRUE]

\* ---------------------------------------------------------- metrics daemon
NoDid == Did(<<>>, <<>>, <<>>, FALSE, FALSE, FALSE)
NotAsked ==
    [mode |-> "none", create |-> "not asked", clear |-> 0, load |-> "not asked",
     insert |-> "not asked", preset |-> FALSE, header |-> {}]

MetricsIdle ==
    /\ mpc = "run"
    /\ mstop = "none"
    /\ createLog = <<>>
    /\ did = NoDid
    /\ asked = NotAsked
    /\ mcycles = 0
    /\ nSucceeded = 0
    /\ nAppended = 0

\* ------------------------------------------------- warehouse and archive
StoreIdle ==
    /\ clock = 0
    /\ timestamp = 0
    /\ tables = [n \in TableNames |-> NoData]
    /\ reordered = tables
    /\ archive = [p \in ArchivePaths |-> NoFile]
    /\ replaced = {}

\* --------------------------------------------------------- holders daemon
\* the chain ids, in listing order, of the networks a cycle is to process
Eligible(answer) ==
    LET wanted(net) == net.isTestnet = JFalse /\ net.duneName \notin {None, ""}
        nets == SelectSeq(answer.body, wanted)
    IN  [i \in 1..Len(nets) |-> nets[i].chainId]

HoldersIdle ==
    /\ hpc = "run"
    /\ stopCause = "none"
    /\ fetchExc = "none"
    /\ eligible = <<>>
    /\ networks = <<>>
    /\ ni = 1
    /\ ntokens = 0
    /\ ti = 1
    /\ processed = <<>>
    /\ unit = NoEffects
    /\ unitIn = NoUnitIn
    /\ nUnits = 0
    /\ nCalls = 0
    /\ nTransport = 0
    /\ nPublished = 0
    /\ others = FALSE
    /\ cycleLog = {}
    /\ ret = "not returned"

\* run calls sync_once: get_networks, the debug slice, then the for loop
StartCycle ==
    /\ hpc = "run"
    /\ \E answer \in NetworksAnswers :
         /\ fetchExc' = answer.exc
         /\ eligible' = Eligible(answer)
         /\ networks' = DebugSlice(get_networks(answer), debug)
         /\ cycleLog' = {"Starting sync cycle", "Found mainnet networks"}
                        \cup (IF answer.exc # "none" THEN {"ERROR Failed to fetch networks"} ELSE {})
                        \cup (IF debug THEN {"DEBUG mode"} ELSE {})
    /\ hpc' = "networks"
    /\ ni' = 1
    /\ ntokens' = 0
    /\ ti' = 1
    /\ processed' = <<>>
    /\ unit' = NoEffects
    /\ unitIn' = NoUnitIn
    /\ nUnits' = 0
    /\ nCalls' = 0
    /\ nTransport' = 0
    /\ nPublished' = 0
    /\ others' = FALSE
    /\ ret' = "not returned"
    /\ UNCHANGED <<stopCause, debug, hasDune, uvars, mvars, svars>>

\* run calls sync_once and the networks.json endpoint accepts the request and
\* stays silent: requests.get, called without a timeout, does not return
GetNetworksBlocks ==
    /\ hpc = "run"
    /\ ~HasTimeout("get_networks")
    /\ hpc' = "blocked"
    /\ fetchExc' = "none"
    /\ eligible' = <<>>
    /\ networks' = <<>>
    /\ cycleLog' = {"Starting sync cycle"}
    /\ ni' = 1
    /\ ntokens' = 0
    /\ ti' = 1
    /\ processed' = <<>>
    /\ unit' = NoEffects
    /\ unitIn' = NoUnitIn
    /\ nUnits' = 0
    /\ nCalls' = 0
    /\ nTransport' = 0
    /\ nPublished' = 0
    /\ others' = FALSE
    /\ ret' = "not returned"
    /\ UNCHANGED <<stopCause, debug, hasDune, uvars, mvars, svars>>

\* KeyboardInterrupt while requests.get waits: the bare except of get_networks
\* takes it, get_networks returns [] and sync_once goes on
InterruptBlockedCall ==
    /\ hpc = "blocked"
    /\ hpc' = "networks"
    /\ fetchExc' = "KeyboardInterrupt"
    /\ networks' = DebugSlice(get_networks([exc |-> "KeyboardInterrupt", body |-> <<>>]), debug)
    /\ cycleLog' = cycleLog \cup {"ERROR Failed to fetch networks", "Found mainnet networks"}
                            \cup (IF debug THEN {"DEBUG mode"} ELSE {})
    /\ UNCHANGED <<stopCause, debug, hasDune, eligible, ni, ntokens, ti, processed, unit,
                   unitIn, nUnits, nCalls, nTransport, nPublished, others, ret,
                   uvars, mvars, svars>>

\* for network in networks: a network without duneName is skipped (continue)
SkipNetwork ==
    /\ hpc = "networks"
    /\ ni <= Len(networks)
    /\ NoDuneSupport(networks[ni])
    /\ ni' = ni + 1
    /\ cycleLog' = cycleLog \cup {"Skipping network - no Dune support"}
    /\ UNCHANGED <<hpc, stopCause, debug, hasDune, fetchExc, eligible, networks, ntokens, ti,
                   processed, unit, unitIn, nUnits, nCalls, nTransport, nPublished,
                   others, ret, uvars, mvars, svars>>

\* for network in networks: tokens = self.get_tokens(network)
QueryTokens ==
    /\ hpc = "networks"
    /\ ni <= Len(networks)
    /\ ~NoDuneSupport(networks[ni])
    /\ \E answer \in SubgraphAnswers :
         LET n == get_tokens(answer)
         IN  /\ nUnits + n <= MaxUnits
             /\ ntokens' = n
             /\ nUnits' = nUnits + n
             /\ IF n = 0
                THEN ni' = ni + 1 /\ hpc' = "networks"
                ELSE ni' = ni /\ hpc' = "tokens"
    /\ ti' = 1
    /\ processed' = Append(processed, networks[ni].chainId)
    /\ cycleLog' = cycleLog \cup {"Processing network"}
    /\ UNCHANGED <<stopCause, debug, hasDune, fetchExc, eligible, networks, unit, unitIn,
                   nCalls, nTransport, nPublished, others, ret, uvars, mvars, svars>>

\* mutant: run calls sync_once again without the interval sleep
CycleCompletedNoSleep ==
    /\ hpc = "networks"
    /\ ni > Len(networks)
    /\ cycleLog' = cycleLog \cup {"Sync cycle completed"}
    /\ ret' = None
    /\ hpc' = "run"
    /\ UNCHANGED <<stopCause, debug, hasDune, fetchExc, eligible, networks, ni, ntokens, ti,
                   processed, unit, unitIn, nUnits, nCalls, nTransport, nPublished,
                   others, uvars, mvars, svars>>

\* the for loop over networks is exhausted: sync_once logs and returns (None),
\* run logs "Waiting ..." and enters time.sleep(update_interval)
CycleCompleted ==
    /\ hpc = "networks"
    /\ ni > Len(networks)
    /\ cycleLog' = cycleLog \cup {"Sync cycle completed"}
    /\ ret' = None
    /\ hpc' = "sleep"
    /\ UNCHANGED <<stopCause, debug, hasDune, fetchExc, eligible, networks, ni, ntokens, ti,
                   processed, unit, unitIn, nUnits, nCalls, nTransport, nPublished,
                   others, uvars, mvars, svars>>

\* the exception classes of the model that derive from Exception
ExceptionClasses ==
    {"AttributeError", "TypeError", "KeyError", "RequestException", "ConnectionError",
     "JSONDecodeError"}

\* mutant: run catches the interrupt and request exceptions only
run_except_requests_only(exc) ==
    CASE exc = "KeyboardInterrupt"                      -> "interrupt"
      [] exc \in {"RequestException", "ConnectionError"} -> "exception"
      [] OTHER                                          -> "propagated"

\* run: the except clause of the try around "while True" that takes an
\* exception: "except KeyboardInterrupt", "except Exception", or none (the
\* exception leaves run)
run_except(exc) ==
    CASE exc = "KeyboardInterrupt"  -> "interrupt"
      [] exc \in ExceptionClasses    -> "exception"
      [] OTHER                      -> "propagated"

\* an exception leaving sync_once: run's "except Exception" logs it, the while
\* loop is left, "Daemon stopped" is logged and run returns
EscapeToRun ==
    /\ hpc' = "stopped"
    /\ stopCause' = run_except("AttributeError")
    /\ cycleLog' = cycleLog \cup (IF run_except("AttributeError") = "exception"
                                  THEN {"ERROR Unexpected error", "Daemon stopped"}
                                  ELSE {})

\* the distinct (inputs' class, effects) pairs of process_token over every
\* token, holders answer and file-system/Dune answer
UnitCases ==
    [dune \in BOOLEAN |->
        { [in  |-> [valid |-> WellFormed(token), fault |-> Fault(answer, env)],
           eff |-> process_token(token, answer, env, dune)] :
          token \in Tokens, answer \in HolderAnswers, env \in UnitEnvs }]

\* mutant: the sleep is made after a holders fetch only
AfterProcessTokenFetchedOnly(eff) == IF eff.fetched THEN "delay" ELSE "tokens"

\* sync_once: "time.sleep(0.5)" is the statement after every process_token
\* call of the token loop, whatever the call did
AfterProcessToken(eff) == "delay"

\* self.process_token(token, network) for the next token of the list
ProcessToken ==
    /\ hpc = "tokens"
    /\ \E c \in UnitCases[hasDune] :
         LET eff == c.eff
             transport == c.in.valid /\ c.in.fault \in TransportFaults
             publishable == c.in.valid /\ c.in.fault = "none" /\ hasDune
         IN  /\ unit' = eff
             /\ unitIn' = c.in
             /\ nCalls' = nCalls + 1
             /\ nTransport' = nTransport + (IF transport THEN 1 ELSE 0)
             /\ nPublished' = nPublished + (IF eff.uploaded THEN 1 ELSE 0)
             /\ others' = (others \/ ~(transport \/ publishable))
             /\ IF eff.raised
                THEN EscapeToRun
                ELSE hpc' = AfterProcessToken(eff) /\ UNCHANGED <<stopCause, cycleLog>>
    /\ UNCHANGED <<debug, hasDune, fetchExc, eligible, networks, ni, ntokens, ti, processed,
                   nUnits, ret, uvars, mvars, svars>>

\* time.sleep(0.5) after the call, then the next token or the next network
RateLimitDelay ==
    /\ hpc = "delay"
    /\ IF ti < ntokens
       THEN ti' = ti + 1 /\ hpc' = "tokens" /\ ni' = ni
       ELSE ti' = ti /\ hpc' = "networks" /\ ni' = ni + 1
    /\ unit' = NoEffects
    /\ unitIn' = NoUnitIn
    /\ UNCHANGED <<stopCause, debug, hasDune, fetchExc, eligible, networks, ntokens,
                   processed, nUnits, nCalls, nTransport, nPublished, others,
                   cycleLog, ret, uvars, mvars, svars>>

\* time.sleep(self.update_interval) returns: back to the top of "while True"
IntervalSleep ==
    /\ hpc = "sleep"
    /\ hpc' = "run"
    /\ UNCHANGED <<stopCause, debug, hasDune, fetchExc, eligible, networks, ni, ntokens, ti,
                   processed, unit, unitIn, nUnits, nCalls, nTransport, nPublished,
                   others, cycleLog, ret, uvars, mvars, svars>>

\* KeyboardInterrupt raised anywhere in run outside get_networks' try block:
\* run's "except KeyboardInterrupt" logs the shutdown and run returns
Interrupt ==
    /\ hpc \notin {"stopped", "blocked"}
    /\ hpc' = "stopped"
    /\ stopCause' = run_except("KeyboardInterrupt")
    /\ cycleLog' = cycleLog \cup {"Received keyboard interrupt", "Daemon stopped"}
    /\ UNCHANGED <<debug, hasDune, fetchExc, eligible, networks, ni, ntokens, ti, processed,
                   unit, unitIn, nUnits, nCalls, nTransport, nPublished, others,
                   ret, uvars, mvars, svars>>

InitHolders ==
    /\ HoldersIdle
    /\ debug \in BOOLEAN
    /\ hasDune \in BOOLEAN
    /\ call = NoCall
    /\ MetricsIdle
    /\ initFlag = None
    /\ apiKey = FALSE
    /\ tableExists = FALSE
    /\ tableRows = 0
    /\ StoreIdle

NextHolders ==
    \/ StartCycle
    \/ GetNetworksBlocks
    \/ InterruptBlockedCall
    \/ SkipNetwork
    \/ QueryTokens
    \/ CycleCompleted
    \/ ProcessToken
    \/ RateLimitDelay
    \/ IntervalSleep
    \/ Interrupt

SpecHolders == InitHolders /\ [][NextHolders]_vars

\* ---------------------------------------------------------- metrics daemon
\* the calls a cycle made, as a set
Called(d) == {d.calls[i] : i \in 1..Len(d.calls)}

\* the preset file has data rows and every cell outside timestamp is a
\* number or blank
Loadable(preset) ==
    /\ preset.rows # <<>>
    /\ \A i \in 1..Len(preset.rows) : \A c \in DOMAIN preset.rows[i] :
          c = "timestamp" \/ preset.rows[i][c] \in {"", " ", "100"}

\* the distinct outcomes of _initialize_table over every answer of Dune and
\* every preset file. The clear endpoint answers 200 and the insert succeeds
\* only for a table that exists.
InitCases ==
    [dune \in BOOLEAN, key \in BOOLEAN, exists \in BOOLEAN |->
        { LET createAns == x[1]
              clearAns == x[2]
              preset == x[3]
              insertAns == x[4]
              d == initialize_table(dune, key, preset, createAns, clearAns, insertAns)
          IN  [did    |-> d,
               asked  |-> [mode   |-> "init",
                           create |-> IF dune THEN createAns ELSE "not asked",
                           clear  |-> IF key THEN clearAns ELSE 0,
                           load   |-> IF "load_preset_csv_data" \notin Called(d)
                                      THEN "not asked"
                                      ELSE IF Loadable(preset) THEN "ok" ELSE "failed",
                           insert |-> IF d.inserted # <<>> /\ InsertRemoteCall(dune)
                                      THEN insertAns ELSE "not asked",
                           preset |-> d.cleared /\ preset.exists,
                           header |-> IF "load_preset_csv_data" \in Called(d)
                                      THEN preset.header ELSE {}],
               ret    |-> create_table(dune, createAns),
               exists |-> ExistsAfterCreate(exists, dune, createAns)] :
          x \in { y \in CreateAnswers(exists) \X ClearAnswers \X Presets \X InsertAnswers :
                    (y[2] = 200 \/ y[4] # "raise") => ExistsAfterCreate(exists, dune, y[1]) } }]

\* sync_once with SUP_METRICS_INIT set: process_metrics -> _initialize_table
InitCycle ==
    /\ mpc = "run"
    /\ mcycles < MaxCycles
    /\ InitRequested(initFlag)
    /\ \E c \in InitCases[hasDune, apiKey, tableExists] :
         /\ did' = c.did
         /\ asked' = c.asked
         /\ createLog' = Append(createLog, c.ret)
         /\ tableExists' = c.exists
         /\ tableRows' = (IF c.did.cleared THEN 0 ELSE tableRows) + Len(c.did.stored)
    /\ mpc' = "sleep"
    /\ mcycles' = mcycles + 1
    /\ UNCHANGED <<mstop, initFlag, apiKey, nSucceeded, nAppended, hvars, uvars, svars>>

\* the distinct outcomes of _add_latest_entry over every answer of the metrics
\* API and of Dune; the insert succeeds only for a table that exists
AppendCases ==
    [dune \in BOOLEAN, exists \in BOOLEAN |->
        { LET d == add_latest_entry(dune, x[1], x[2])
          IN  [did   |-> d,
               asked |-> [NotAsked EXCEPT
                            !.mode = "append",
                            !.insert = IF d.inserted # <<>> /\ InsertRemoteCall(dune)
                                       THEN x[2] ELSE "not asked"]] :
          x \in { y \in MetricsAnswers \X InsertAnswers : y[2] # "raise" => exists } }]

\* sync_once without SUP_METRICS_INIT: process_metrics -> _add_latest_entry.
\* An exception leaving sync_once is logged by run, which then returns.
AppendCycle ==
    /\ mpc = "run"
    /\ mcycles < MaxCycles
    /\ ~InitRequested(initFlag)
    /\ \E c \in AppendCases[hasDune, tableExists] :
         /\ did' = c.did
         /\ asked' = c.asked
         /\ tableRows' = tableRows + Len(c.did.stored)
         /\ nSucceeded' = nSucceeded + (IF c.did.result THEN 1 ELSE 0)
         /\ nAppended' = nAppended + Len(c.did.stored)
         /\ IF c.did.raised
            THEN mpc' = "stopped" /\ mstop' = "exception"
            ELSE mpc' = "sleep" /\ mstop' = mstop
    /\ mcycles' = mcycles + 1
    /\ UNCHANGED <<initFlag, apiKey, tableExists, createLog, hvars, uvars, svars>>

\* time.sleep(self.update_interval) returns
MetricsSleep ==
    /\ mpc = "sleep"
    /\ mpc' = "run"
    /\ UNCHANGED <<mstop, initFlag, apiKey, tableExists, tableRows, createLog, did,
                   asked, mcycles, nSucceeded, nAppended, hvars, uvars, svars>>

\* KeyboardInterrupt in run: logged, run returns
MetricsInterrupt ==
    /\ mpc # "stopped"
    /\ mpc' = "stopped"
    /\ mstop' = "interrupt"
    /\ UNCHANGED <<initFlag, apiKey, tableExists, tableRows, createLog, did, asked,
                   mcycles, nSucceeded, nAppended, hvars, uvars, svars>>

InitMetrics ==
    /\ MetricsIdle
    /\ initFlag \in {None, "", "true", "false", "0"}
    /\ apiKey \in BOOLEAN
    /\ hasDune \in BOOLEAN
    /\ tableExists \in BOOLEAN
    /\ tableRows \in (IF tableExists THEN 0..1 ELSE {0})
    /\ HoldersIdle
    /\ debug = FALSE
    /\ call = NoCall
    /\ StoreIdle

NextMetrics ==
    \/ InitCycle
    \/ AppendCycle
    \/ MetricsSleep
    \/ MetricsInterrupt

SpecMetrics == InitMetrics /\ [][NextMetrics]_vars

\* ------------------------------------------------- a single call (no daemon)
\* process_token called once, with DRY_RUN set or not in the environment
CallProcessToken ==
    /\ call.fn = "none"
    /\ \E dryRun \in BOOLEAN, dune \in BOOLEAN, token \in AllTokens,
          answer \in HolderAnswers, env \in UnitEnvs :
         call' = [fn |-> "process_token", dryRun |-> dryRun, dune |-> dune,
                  token |-> token, fault |-> Fault(answer, env),
                  eff |-> process_token(token, answer, env, dune), row |-> <<>>,
                  gw |-> NoGateway, dl |-> NoDownload, writeOK |-> TRUE]
    /\ UNCHANGED <<hvars, mvars, svars>>

\* _insert_current_data called once, with DRY_RUN set or not in the environment
CallInsertCurrentData ==
    /\ call.fn = "none"
    /\ \E dryRun \in BOOLEAN, dune \in BOOLEAN,
          body \in {"full", "partial", "empty_metrics"}, insertAns \in InsertAnswers :
         LET d == insert_current_data(dune, body, insertAns, <<>>)
         IN  call' = [fn |-> "_insert_current_data", dryRun |-> dryRun, dune |-> dune,
                      token |-> NoCall.token,
                      fault |-> IF insertAns = "ok" THEN "none" ELSE "upload",
                      eff |-> [NoEffects EXCEPT !.outcome = IF d.result THEN "published"
                                                             ELSE "upload_failed",
                                                !.fetched = TRUE,
                                                !.logged = TRUE,
                                                !.uploadCalled = InsertRemoteCall(dune),
                                                !.uploaded = d.result],
                      row |-> d.inserted, gw |-> NoGateway, dl |-> NoDownload,
                      writeOK |-> TRUE]
    /\ UNCHANGED <<hvars, mvars, svars>>

\* upload_csv_to_dune, insert_data_to_dune and create_table of one
\* DuneSyncBase object, each called once
CallGateway ==
    /\ call.fn = "none"
    /\ \E dune \in BOOLEAN, exists \in BOOLEAN, uploadAns \in UploadAnswers,
          insertAns \in InsertAnswers :
         \E createAns \in CreateAnswers(exists) :
           call' = [NoCall EXCEPT
                      !.fn = "gateway",
                      !.dune = dune,
                      !.fault = IF uploadAns = "ok" /\ insertAns = "ok" /\ createAns # "raise"
                                THEN "none" ELSE "upload",
                      !.gw = [upload |-> upload_csv_to_dune(dune, uploadAns),
                              insert |-> insert_data_to_dune(dune, <<NewRow("full")>>, insertAns),
                              create |-> create_table(dune, createAns),
                              remote |-> \/ UploadRemoteCall(dune)
                                         \/ InsertRemoteCall(dune)
                                         \/ CreateRemoteCall(dune)]]
    /\ UNCHANGED <<hvars, mvars, svars>>

InitUnit ==
    /\ call = NoCall
    /\ HoldersIdle
    /\ debug = FALSE
    /\ hasDune = FALSE
    /\ MetricsIdle
    /\ initFlag = None
    /\ apiKey = FALSE
    /\ tableExists = FALSE
    /\ tableRows = 0
    /\ StoreIdle

\* main of the download script, run once
CallDownloadMain ==
    /\ call.fn = "none"
    /\ \E data \in DownloadAnswers, writeOK \in BOOLEAN :
         call' = [NoCall EXCEPT !.fn = "download_main",
                                !.dl = download_main(data, writeOK),
                                !.writeOK = writeOK]
    /\ UNCHANGED <<hvars, mvars, svars>>

NextUnit ==
    \/ CallProcessToken
    \/ CallInsertCurrentData
    \/ CallGateway
    \/ CallDownloadMain

SpecUnit == InitUnit /\ [][NextUnit]_vars

\* ------------------------------ holders cycles on the tables and the archive
\* one call of sync_once by run, as a whole, on the network "base": the
\* subgraph lists `units`; the tables and the archive after the token loop.
\* `reordered` is what the tables would be had the subgraph listed the same
\* tokens in the order p. run then enters the interval sleep.
SyncOnceStore ==
    /\ hpc = "run"
    /\ clock < MaxCycles
    /\ \E units \in StoreBatches :
         \E p \in Permutations(1..Len(units)) :
           LET before == [tables |-> tables, archive |-> archive, replaced |-> replaced]
               after == RunUnits(before, units, hasDune, timestamp, clock)
               other == RunUnits(before, [i \in 1..Len(units) |-> units[p[i]]],
                                 hasDune, timestamp, clock)
           IN  /\ tables' = after.tables
               /\ archive' = after.archive
               /\ replaced' = after.replaced
               /\ reordered' = other.tables
    /\ hpc' = "sleep"
    /\ ret' = None
    /\ UNCHANGED <<clock, timestamp, stopCause, debug, hasDune, fetchExc, eligible,
                   networks, ni, ntokens, ti, processed, unit, unitIn, nUnits, nCalls,
                   nTransport, nPublished, others, cycleLog, uvars, mvars>>

\* time.sleep(self.update_interval) returns: the clock has advanced
IntervalSleepStore ==
    /\ hpc = "sleep"
    /\ hpc' = "run"
    /\ clock' = clock + 1
    /\ UNCHANGED <<timestamp, tables, reordered, archive, replaced, stopCause, debug,
                   hasDune, fetchExc, eligible, networks, ni, ntokens, ti, processed,
                   unit, unitIn, nUnits, nCalls, nTransport, nPublished, others,
                   cycleLog, ret, uvars, mvars>>

InitStore ==
    /\ StoreIdle
    /\ HoldersIdle
    /\ debug = FALSE
    /\ hasDune \in BOOLEAN
    /\ call = NoCall
    /\ MetricsIdle
    /\ initFlag = None
    /\ apiKey = FALSE
    /\ tableExists = FALSE
    /\ tableRows = 0

NextStore ==
    \/ SyncOnceStore
    \/ IntervalSleepStore

SpecStore == InitStore /\ [][NextStore]_vars

\* ================================================================ claims
IsPrefix(a, b) == Len(a) <= Len(b) /\ a = SubSeq(b, 1, Len(a))

\* ----------------------------------------------------------------- C1
ListedFaults == {"http_status", "api_error", "request_exception", "csv_write", "upload"}

\* C1: in a holders cycle a work unit that fails by a non-200 status, an
\* API-reported error, a request exception, a CSV write failure or an upload
\* failure never aborts the cycle: process_token returns, the daemon is not
\* stopped by it, every unit that is well-formed, fetched with holders and
\* free of faults is uploaded whatever happened to the units before it, and a
\* cycle that returns has called process_token for every token it enumerated.
C1_UnitFailureNeverAbortsCycle ==
    /\ (unitIn.valid /\ unitIn.fault \in ListedFaults)
         => (~unit.raised /\ stopCause # "exception")
    /\ (unitIn.valid /\ unitIn.fault = "none" /\ hasDune) => unit.uploaded
    /\ ret = None => nCalls = nUnits

\* a unit is uploaded after an earlier unit of the same cycle failed transport
C1_Witness == hpc = "delay" /\ unit.uploaded /\ nTransport >= 1 /\ nCalls >= 2

\* ----------------------------------------------------------------- C2
\* C2: an exception escaping a cycle is caught at the loop boundary and
\* logged, and the loop goes on (sleep, next cycle): the daemon is not
\* stopped by it.
C2_DaemonSurvivesCycleException ==
    ("ERROR Unexpected error" \in cycleLog) => (hpc # "stopped" \/ stopCause = "interrupt")

\* ----------------------------------------------------------------- C3
\* C3: a preset file whose column set differs from the schema's field names
\* makes the preset load fail, and insert_data_to_dune is not called.
C3_PresetColumnMismatchFails ==
    (asked.mode = "init" /\ asked.load # "not asked" /\ asked.header # SchemaNames)
        => (~did.result /\ "insert_data_to_dune" \notin Called(did))

\* ----------------------------------------------------------------- C4
CreateFailed == asked.create \in {"not asked", "raise", "falsy"}
ClearFailed == asked.clear # 200
LoadFailed == asked.load = "failed"
InsertFailed == did.inserted # <<>> /\ asked.insert # "ok"

\* C4 as stated: with the initialize flag set, a failure of any step (create
\* table included) stops initialization at that step and fails the cycle.
C4_AnyStepFailureStopsInit ==
    (asked.mode = "init" /\ CreateFailed)
        => (did.calls = <<"create_table">> /\ ~did.result)

\* C4 amended: with the initialize flag set, a failure of the clear, the preset
\* load or the preset insert stops initialization at that step (no later step
\* runs) and the cycle reports failure; no initialization cycle fetches or
\* appends the latest metrics; a create_table failure is not looked at and
\* the clear step runs after it.
C4_StepFailureStopsInit ==
    asked.mode = "init" =>
        /\ "fetch_metrics" \notin Called(did)
        /\ IsPrefix(did.calls, <<"create_table", "clear_table_data",
                                 "load_preset_csv_data", "insert_data_to_dune">>)
        /\ Len(did.calls) >= 2
        /\ ClearFailed => (Len(did.calls) = 2 /\ ~did.result)
        /\ LoadFailed => (Len(did.calls) = 3 /\ ~did.result)
        /\ InsertFailed => ~did.result
        /\ asked.insert = "raise" => did.stored = <<>>
        /\ ~did.result => (ClearFailed \/ LoadFailed \/ InsertFailed)

\* the clear step failed after a create_table call that failed too
C4_Witness ==
    /\ asked.mode = "init"
    /\ asked.create = "raise"
    /\ asked.clear = 500
    /\ did.calls = <<"create_table", "clear_table_data">>
    /\ ~did.result

\* ----------------------------------------------------------------- C5
\* C5: create_table never raises to its caller (it returns the result or
\* None and _initialize_table goes on to its next step), and once a call has
\* returned the Created result every later call with the same arguments
\* returns the already-exists outcome, None.
C5_CreateTableTwice ==
    /\ \A i \in DOMAIN createLog : createLog[i] \in {"Created", None}
    /\ \A i, j \in DOMAIN createLog :
         (i < j /\ createLog[i] = "Created") => createLog[j] = None
    /\ asked.mode = "init" => (Len(did.calls) >= 2 /\ did.calls[1] = "create_table")

\* the second call met an exception of the warehouse and returned None
C5_Witness ==
    /\ Len(createLog) = 2
    /\ createLog[1] = "Created"
    /\ createLog[2] = None
    /\ asked.create = "raise"

\* ----------------------------------------------------------------- C6
Unidentified(token) ==
    token.id \in {None, ""} \/ token.symbol \in {None, "", " ", "  "}

\* C6: for a token whose address is missing or empty, or whose symbol is
\* missing, empty or blank, process_token returns before get_holders, writes
\* no file, uploads and archives nothing.
C6_UnidentifiedTokenShortCircuits ==
    (call.fn = "process_token" /\ Unidentified(call.token))
        => /\ ~call.eff.fetched
           /\ ~call.eff.csvWritten
           /\ ~call.eff.uploadCalled
           /\ ~call.eff.uploaded
           /\ ~call.eff.archived
           /\ ~call.eff.raised

\* a blank-symbol token that everything else would have published
C6_Witness ==
    /\ call.fn = "process_token"
    /\ call.token = [id |-> "0xT", symbol |-> " "]
    /\ call.fault = "none"
    /\ call.dune
    /\ call.eff.outcome = "skip_symbol"

WouldPublish ==
    /\ call.fn # "none"
    /\ call.dune
    /\ call.fault = "none"
    /\ call.fn = "process_token" => ~Unidentified(call.token)

\* C8: in dry-run mode a unit that would otherwise publish never invokes the
\* warehouse upload/insert, while its fetch and transform still run.
C8_DryRunSuppressesPublish ==
    (call.dryRun /\ WouldPublish) => (~call.eff.uploadCalled /\ call.eff.fetched)

\* ----------------------------------------------------------------- C9
\* C9 as stated: a cycle queries the tokens of exactly the mainnet networks
\* of the listing that have a non-empty duneName.
C9_ProcessesExactlyEligible == hpc = "sleep" => processed = eligible

\* C9 amended: a cycle queries tokens only for mainnet networks with a
\* non-empty duneName, in listing order; when it returns with the debug flag
\* unset it has queried exactly those; with the debug flag set it has queried
\* at most one of them.
C9_ProcessesEligibleOnly ==
    /\ IsPrefix(processed, eligible)
    /\ (ret = None /\ ~debug) => processed = eligible
    /\ debug => Len(processed) <= 1

\* two mainnet networks, one without duneName: exactly one is processed
C9_Witness ==
    /\ ret = None
    /\ ~debug
    /\ Len(networks) = 2
    /\ \E i \in 1..2 : networks[i].duneName = None
    /\ Len(processed) = 1

\* ---------------------------------------------------------------- C10
\* C10: when the network listing cannot be reached (request exception or
\* undecodable response) the cycle reports a failure, not a completed cycle.
C10_UnreachableListingFailsCycle ==
    (hpc = "sleep" /\ fetchExc \in {"ConnectionError", "JSONDecodeError"})
        => ("Sync cycle completed" \notin cycleLog /\ ret # None)

\* ---------------------------------------------------------------- C11
\* C11: a unit's CSV is archived only after that unit's upload has succeeded:
\* a unit whose upload failed, or that made no upload (no Dune client, or a
\* failure before the upload), archives nothing; such a unit returns without
\* raising and the daemon is not stopped by it.
C11_ArchiveOnlyAfterUpload ==
    /\ unit.archived => (unit.uploadCalled /\ unit.uploaded)
    /\ ~hasDune => (~unit.uploadCalled /\ ~unit.archived)
    /\ (unitIn.valid /\ unitIn.fault = "upload")
         => (~unit.archived /\ ~unit.raised /\ stopCause # "exception")
    /\ unit.outcome \in {"upload_failed", "no_client"}
         => (unit.csvWritten /\ ~unit.archived /\ hpc \in {"delay", "stopped"})

\* the upload of the second unit of a cycle failed: the unit has returned
\* with its CSV written and not archived, the cycle is at its delay step
C11_Witness ==
    /\ hpc = "delay"
    /\ nCalls = 2
    /\ unitIn.fault = "upload"
    /\ unit.outcome = "upload_failed"
    /\ unit.uploadCalled
    /\ ~unit.archived

\* ---------------------------------------------------------------- C12
\* a cycle is executing: sync_once has been called and has not returned
InCycle == hpc \in {"blocked", "networks", "tokens", "delay"}

\* C12: at most one cycle executes at a time and within it at most one unit:
\* sync_once is called only from the top of run's loop, by a run that is in no
\* cycle; the top of the loop is reached again only from the interval sleep,
\* which is entered only by a cycle that has returned with every enumerated
\* token processed; process_token is called only at the head of the token
\* loop, after the previous call has returned and its delay has passed.
C12_OneCycleOneUnitAtATime ==
    [][ /\ (~InCycle /\ InCycle') => (hpc = "run" /\ hpc' \in {"networks", "blocked"} /\ nCalls' = 0)
        /\ (hpc # "run" /\ hpc' = "run") => (hpc = "sleep" /\ ret = None)
        /\ (hpc # "sleep" /\ hpc' = "sleep")
              => (hpc = "networks" /\ ret' = None /\ nCalls = nUnits)
        /\ (InCycle /\ InCycle') => (ret' = "not returned" /\ nCalls' \in {nCalls, nCalls + 1})
        /\ (nCalls' # nCalls /\ InCycle)
              => (hpc = "tokens" /\ unit = NoEffects /\ nCalls' = nCalls + 1
                  /\ hpc' \in {"delay", "stopped"})
      ]_vars

\* the loop is back at its top after a cycle of two units has returned and the
\* interval sleep has elapsed: the next cycle is about to start
C12_Witness ==
    /\ hpc = "run"
    /\ ret = None
    /\ nCalls = 2
    /\ nUnits = 2

\* ---------------------------------------------------------------- C13
\* C13: an interrupt observed by run's loop makes run log the shutdown and
\* return; no cycle starts and nothing else happens after run has returned;
\* an exception leaving a cycle is caught by run too (logged, run returns):
\* none propagates out of run.
C13_InterruptStopsRunCleanly ==
    /\ [](/\ stopCause # "propagated"
          /\ (hpc = "stopped") <=> (stopCause # "none")
          /\ hpc = "stopped" => "Daemon stopped" \in cycleLog
          /\ stopCause = "interrupt" => "Received keyboard interrupt" \in cycleLog
          /\ stopCause = "exception" => "ERROR Unexpected error" \in cycleLog)
    /\ [][hpc = "stopped" => UNCHANGED <<hpc, stopCause, nCalls, nUnits, cycleLog>>]_vars

\* the interrupt arrived after a cycle of at least one unit had returned
C13_Witness ==
    /\ hpc = "stopped"
    /\ stopCause = "interrupt"
    /\ ret = None
    /\ nCalls >= 1
    /\ "Received keyboard interrupt" \in cycleLog

\* ---------------------------------------------------------------- C14
\* C14: the tables of the warehouse after a cycle do not depend on the order
\* in which the cycle's units were processed.
C14_OrderIrrelevant == tables = reordered

\* ---------------------------------------------------------------- C15
\* C15: every row the metrics sync passes to insert_data_to_dune (the
\* current-data row and every preset row) has exactly the schema's field
\* names as keys and a non-null value for each non-nullable field.
C15_InsertedRowsMatchSchema ==
    \A i \in 1..Len(did.inserted) :
        /\ DOMAIN did.inserted[i] = SchemaNames
        /\ \A c \in NonNullable \cap DOMAIN did.inserted[i] : did.inserted[i][c] # JNull

\* ---------------------------------------------------------------- C16
\* C16: insert_data_to_dune is never called with an empty row sequence: on
\* the append path it receives exactly one row, on the preset path at least
\* one; a preset file without data rows makes the load fail before the insert.
C16_InsertNeverEmpty ==
    /\ "insert_data_to_dune" \in Called(did) => Len(did.inserted) >= 1
    /\ (asked.mode = "append" /\ "insert_data_to_dune" \in Called(did))
          => Len(did.inserted) = 1
    /\ (asked.mode = "init" /\ asked.preset /\ asked.header = {})
          => ("insert_data_to_dune" \notin Called(did) /\ ~did.result)

\* an initialization cycle inserted a preset file of two rows
C16_Witness ==
    /\ asked.mode = "init"
    /\ asked.header = SchemaNames
    /\ "insert_data_to_dune" \in Called(did)
    /\ Len(did.inserted) = 2

\* ---------------------------------------------------------------- C17
\* C17: every network call of a cycle has a bounded timeout, so no cycle is
\* ever left waiting on an endpoint that does not respond.
C17_NoCallWaitsForever == hpc # "blocked"

\* ---------------------------------------------------------------- C18
\* C18: archives produced by different cycles of one daemon run have
\* distinct paths: a cycle never replaces a file archived by an earlier cycle.
C18_LaterCycleKeepsEarlierArchive == \A r \in replaced : r.was = r.by

\* ---------------------------------------------------------------- C19
\* C19: an interrupt takes effect at a cycle boundary only: when run stops
\* on an interrupt, the cycle it had started has returned with every
\* enumerated token processed, and no interrupt is lost inside a cycle.
C19_InterruptOnlyAtCycleBoundary ==
    /\ stopCause = "interrupt"
          => ("Starting sync cycle" \notin cycleLog \/ (ret = None /\ nCalls = nUnits))
    /\ fetchExc # "KeyboardInterrupt"

\* ---------------------------------------------------------------- C20
\* C20: in a holders cycle every process_token call that returns, whether the
\* unit was published, skipped or failed, is followed by the rate-limit delay
\* step, and a call that is not the first of its cycle starts only after the
\* delay step that followed the previous call: no two calls, hence no two
\* holders fetches, without a delay step between them.
C20_DelayBetweenUnits ==
    [][ /\ (nCalls' = nCalls + 1 /\ ~unit'.raised) => (hpc' = "delay" /\ unit' # NoEffects)
        /\ (nCalls' = nCalls + 1 /\ nCalls >= 1) => (hpc = "tokens" /\ unit = NoEffects)
        /\ (unit # NoEffects /\ unit' = NoEffects)
              => (hpc = "delay" \/ (hpc = "run" /\ nCalls' = 0))
        /\ (hpc = "delay" /\ hpc' # "delay")
              => (hpc' = "stopped" \/ (unit' = NoEffects /\ hpc' \in {"tokens", "networks"}))
      ]_vars

\* the second call of a cycle skipped its token (blank symbol, no fetch):
\* the cycle is at the delay step all the same
C20_Witness ==
    /\ hpc = "delay"
    /\ nCalls = 2
    /\ unit.outcome = "skip_symbol"
    /\ ~unit.fetched

\* ---------------------------------------------------------------- C21
\* C21 as stated: with the debug flag set a cycle processes exactly one
\* network whenever the listing has a processable one (mainnet, with a
\* destination name).
C21_DebugProcessesOneIfAny ==
    (debug /\ ret = None /\ fetchExc = "none" /\ eligible # <<>>) => Len(processed) = 1

\* C21 amended: with the debug flag set the enumeration is cut to the first
\* mainnet network of the listing before the destination name is looked at:
\* a cycle never processes more than one network; a cycle that returns has
\* processed exactly one when that first mainnet network has a non-empty
\* duneName (it is then the first processable network of the listing) and
\* none otherwise, also when a later network of the listing is processable.
C21_DebugProcessesFirstMainnetOnly ==
    debug =>
        /\ Len(networks) <= 1
        /\ Len(processed) <= 1
        /\ Len(processed) = 1
              => (/\ networks # <<>>
                  /\ networks[1].duneName \notin {None, ""}
                  /\ processed[1] = networks[1].chainId
                  /\ eligible # <<>>
                  /\ processed[1] = eligible[1])
        /\ ret = None
              => (Len(processed) = 1
                    <=> (networks # <<>> /\ networks[1].duneName \notin {None, ""}))

\* debug cycle over a listing whose first mainnet network has no duneName
\* and whose second is processable: the cycle has returned, none processed
C21_Witness ==
    /\ debug
    /\ ret = None
    /\ eligible # <<>>
    /\ Len(networks) = 1
    /\ networks[1].duneName = None
    /\ processed = <<>>

\* ---------------------------------------------------------------- C22
\* C22: in append mode a cycle that reports success has appended exactly one
\* row and a cycle that reports failure has appended none: after any number
\* of cycles the rows appended equal the cycles reported successful.
C22_AppendedEqualsSucceeded ==
    /\ asked.mode = "append" => Len(did.stored) = (IF did.result THEN 1 ELSE 0)
    /\ nAppended = nSucceeded

\* ---------------------------------------------------------------- C23
\* C23: the initialize flag is read by every cycle and nothing in the daemon
\* unsets it: with any non-empty value ("false" and "0" included) every
\* cycle of the run takes the initialization path (create_table, then the
\* clear step, which on success empties the table, then the reload of the
\* preset file when there is one) and no cycle fetches the metrics or appends
\* a latest row; with the flag unset or empty every cycle is an append cycle.
C23_InitFlagSelectsInitEveryCycle ==
    /\ [](mcycles >= 1 =>
            /\ initFlag \notin {None, ""} =>
                  /\ asked.mode = "init"
                  /\ "fetch_metrics" \notin Called(did)
                  /\ nAppended = 0
                  /\ Len(did.calls) >= 2
                  /\ did.calls[1] = "create_table"
                  /\ did.calls[2] = "clear_table_data"
                  /\ asked.clear = 200 =>
                        /\ did.cleared
                        /\ tableRows = Len(did.stored)
                        /\ asked.preset =>
                              (Len(did.calls) >= 3 /\ did.calls[3] = "load_preset_csv_data")
            /\ initFlag \in {None, ""} => asked.mode = "append")
    /\ [][initFlag' = initFlag]_vars

\* the second cycle of a run with SUP_METRICS_INIT=false has cleared the
\* table again and reloaded the preset rows
C23_Witness ==
    /\ initFlag = "false"
    /\ mcycles = 2
    /\ asked.mode = "init"
    /\ did.cleared
    /\ asked.preset
    /\ Len(did.stored) >= 1
    /\ tableRows = Len(did.stored)

\* ---------------------------------------------------------------- C24
\* C24: without a Dune client (self.dune is None) upload_csv_to_dune and
\* insert_data_to_dune return False and create_table returns None, none of
\* them reaches Dune, whatever Dune would have answered; process_token of
\* the holders sync then writes the unit's CSV and neither uploads nor
\* archives it, and returns without raising.
C24_NoClientNoRemoteCall ==
    /\ (call.fn = "gateway" /\ ~call.dune)
          => (/\ call.gw.upload = FALSE
              /\ call.gw.insert = FALSE
              /\ call.gw.create = None
              /\ ~call.gw.remote)
    /\ (call.fn = "process_token" /\ ~call.dune /\ ~Unidentified(call.token)
          /\ call.fault \in {"none", "upload"})
          => (/\ call.eff.outcome = "no_client"
              /\ call.eff.csvWritten
              /\ ~call.eff.uploadCalled
              /\ ~call.eff.uploaded
              /\ ~call.eff.archived
              /\ ~call.eff.raised)
    /\ (call.fn = "_insert_current_data" /\ ~call.dune)
          => (~call.eff.uploadCalled /\ ~call.eff.uploaded)

\* a unit with holders, processed without a client: CSV written, nothing else
C24_Witness ==
    /\ call.fn = "process_token"
    /\ ~call.dune
    /\ call.token = [id |-> "0xT", symbol |-> "ETHx"]
    /\ call.fault = "none"
    /\ call.eff.csvWritten
    /\ ~call.eff.uploadCalled
    /\ ~call.eff.archived

\* ---------------------------------------------------------------- C25
\* C25: the download script tells an empty table from a failed download: for
\* a download of zero rows main logs a warning, writes no file and returns
\* True; it returns False only when the download failed or the CSV could
\* not be written; otherwise it writes every downloaded row to the file and
\* returns True.
C25_EmptyTableIsNotAFailure ==
    call.fn = "download_main" =>
        /\ (call.dl.data.ok /\ call.dl.data.rows = <<>>)
              => (/\ call.dl.ret = TRUE
                  /\ ~call.dl.file.written
                  /\ call.dl.log = "WARNING Table is empty, no data to save")
        /\ call.dl.ret = FALSE => (~call.dl.data.ok \/ ~call.writeOK)
        /\ (call.dl.data.ok /\ call.dl.data.rows # <<>> /\ call.writeOK)
              => (/\ call.dl.ret = TRUE
                  /\ call.dl.file.written
                  /\ call.dl.file.rows = call.dl.data.rows)

====
